---- MODULE Spec2Model ----
(***************************************************************************)
(* The reset/step loop of the SkillMimic task classes HRLHeadingEasy       *)
(* (hrl_heading_easy.py) and HRLHookshot (hrl_hookshot.py).                *)
(*                                                                         *)
(* Tensors are functions over the environments.  Lengths are integers in   *)
(* units of 1/Scale metre; a distance is compared through its square, so   *)
(* "norm < 1/2" is exact.  torch.rand is a draw r/RandRes, r in            *)
(* 0..RandRes-1.  The physics engine, the motion data handler and the      *)
(* base class HumanoidWholeBodyWithObject are collaborators whose code is  *)
(* outside the two files; their part is marked where it appears.           *)
(***************************************************************************)
EXTENDS Integers, Sequences, FiniteSets, TLC

\* ------------------------------------------------------------- bounds
NumEnvs == 2            \* num_envs
Scale == 2              \* length units per metre
RandRes == 2            \* resolution of torch.rand
MaxEpisodeLength == 4   \* largest max_episode_length explored
MaxMotionTime == 1      \* sample_time draws from 0..MaxMotionTime
MaxStateInit == 2       \* largest integer stateInit explored
EpisodeLengthSlack == 1 \* cfg episodeLength explored within this of the default
TermHeight == 1         \* cfg terminationHeight, in length units

\* ------------------------------------------------- program constants
GoalSpan == 6           \* torch.rand(n)*6 + 2
GoalMin == 2            \* torch.rand(n)*6 + 2
GoalHeight == 1         \* z_dim = ones_like(...): the goal is lifted to z = 1.0
TargetRadiusInv == 2    \* distance_to_goal < 0.5, i.e. 1/2
HookHeightTwice == 5    \* ball height 2.5 of compute_hook_reward, doubled
DefaultEpisodeLength == 800   \* _load_motion: self.max_episode_length = 800
ReportProgress == 799   \* _compute_hoi_observations: progress_buf[0] == 799

Envs == 0 .. (NumEnvs - 1)
RandVals == 0 .. (RandRes - 1)
MotionTimes == 0 .. MaxMotionTime
RootHeights == 0 .. TermHeight
Tasks == {"HRLHeadingEasy", "HRLHookshot"}
StateInitNames == {"Default", "Start", "Random", "Hybrid"}

VARIABLES
    task,                       \* which task class is running
    enable_task_obs,            \* self._enable_task_obs
    cfg_state_init,             \* cfg["env"]["stateInit"]
    state_init,                 \* self._state_init
    enable_early_termination,   \* self._enable_early_termination
    max_episode_length,         \* self.max_episode_length
    pc,                         \* position in the reset/step loop
    op,                         \* the operation that produced this state
    progress_buf, reset_buf, terminate_buf, rew_buf, obs_buf,
    humanoid_root_states, dof_pos, dof_vel,
    target_states, rigid_body_pos, contact_forces,
    init,                       \* the init_* tensors, one field each
    reward_weights, hoi_data_batch,
    goal_position, reached_target

cfgvars == <<task, enable_task_obs, cfg_state_init, state_init,
             enable_early_termination, max_episode_length>>
bufvars == <<progress_buf, reset_buf, terminate_buf, rew_buf, obs_buf>>
simvars == <<humanoid_root_states, dof_pos, dof_vel, target_states,
             rigid_body_pos, contact_forces>>
initvars == <<init, reward_weights, hoi_data_batch>>
goalvars == <<goal_position, reached_target>>
vars == <<cfgvars, pc, op, bufvars, simvars, initvars, goalvars>>

Max(a, b) == IF a >= b THEN a ELSE b
B2I(b) == IF b THEN 1 ELSE 0

\* ---------------------------------------------------------------------
\* Vectors
\* ---------------------------------------------------------------------
Sub3(a, b) == <<a[1] - b[1], a[2] - b[2], a[3] - b[3]>>
NormSq3(v) == v[1] * v[1] + v[2] * v[2] + v[3] * v[3]
Abs(n) == IF n < 0 THEN -n ELSE n

\* Rotation about z by q quarter turns (the headings explored are multiples
\* of 90 degrees, so quat_rotate is exact on integers).
RotZ(q, v) ==
    CASE q % 4 = 0 -> v
      [] q % 4 = 1 -> <<-v[2], v[1], v[3]>>
      [] q % 4 = 2 -> <<-v[1], -v[2], v[3]>>
      [] q % 4 = 3 -> <<v[2], -v[1], v[3]>>

\* ---------------------------------------------------------------------
\* __init__: the state initialization policy read from the configuration
\* ---------------------------------------------------------------------
Lower(s) == IF s \in {"random", "Random", "RANDOM"} THEN "random" ELSE s

\* HRLHeadingEasy.__init__: str(cfg stateInit), "random" in any case gives
\* -1, any other value goes through int().
HeadingStateInit(c) ==
    IF c.kind = "str" /\ Lower(c.val) = "random" THEN -1 ELSE c.val

\* HRLHookshot.__init__: StateInit[state_init], the enum member of that name.
HookStateInit(c) == c.val

HeadingCfgStateInits ==
    {[kind |-> "str", val |-> s] : s \in {"random", "Random", "RANDOM"}}
    \cup {[kind |-> "int", val |-> n] : n \in (-2) .. MaxStateInit}
HookCfgStateInits == {[kind |-> "str", val |-> s] : s \in StateInitNames}

\* ---------------------------------------------------------------------
\* Collaborators: motion data handler and physics engine
\* ---------------------------------------------------------------------
\* MotionDataHandler.get_initial_state: the reference state at motion time t.
get_initial_state(t) ==
    [root_pos |-> <<t + 1, t % 2, TermHeight>>, root_rot |-> t % 4,
     root_pos_vel |-> t, root_rot_vel |-> t,
     dof_pos |-> t, dof_pos_vel |-> t,
     obj_pos |-> <<t + 1, t % 2, Scale>>, obj_pos_vel |-> t,
     obj_rot |-> t, obj_rot_vel |-> t]

InitFields == {"root_pos", "root_rot", "root_pos_vel", "root_rot_vel",
               "dof_pos", "dof_pos_vel",
               "obj_pos", "obj_pos_vel", "obj_rot", "obj_rot_vel"}

Goal3(g) == <<g[1], g[2], GoalHeight * Scale>>

\* Where the simulation may leave the ball of an environment: on the
\* ground, at the goal, one unit beside the goal, at the hook height.
BallPlaces == {"ground", "goal", "beside", "hook"}
BallAt(place, g) ==
    CASE place = "ground" -> <<0, 0, 0>>
      [] place = "goal" -> Goal3(g)
      [] place = "beside" -> <<g[1] + 1, g[2], GoalHeight * Scale>>
      [] place = "hook" -> <<0, 0, (HookHeightTwice * Scale) \div 2>>

\* ---------------------------------------------------------------------
\* jit functions
\* ---------------------------------------------------------------------
\* has_fallen *= (progress_buf > 1): in-place product of two bool tensors.
BoolMul(a, b) == (B2I(a) * B2I(b)) # 0

\* Variant: the two conditions combined with a logical OR.
has_fallen_or(root_pos, progress, termination_heights) ==
    [i \in Envs |-> root_pos[i][3] < termination_heights \/ progress[i] > 1]

\* hrl_heading_easy.py compute_humanoid_reset, lines 359-361
has_fallen(root_pos, progress, termination_heights) ==
    [i \in Envs |->
        BoolMul(root_pos[i][3] < termination_heights, progress[i] > 1)]

\* Variant: early termination from the first step on (progress_buf > 0).
compute_humanoid_reset_first_step(reset_in, progress, contact_buf, rigid_body, ball_pos, root_pos, goal_pos, max_len, enable, heights) ==
    LET terminated ==
            [i \in Envs |->
                B2I(enable /\ root_pos[i][3] < heights /\ progress[i] > 0)]
    IN  <<[i \in Envs |->
             IF progress[i] >= max_len - 1 THEN 1 ELSE terminated[i]],
          terminated>>

\* Variant: the time-out test one step late (progress_buf >= max_episode_length).
compute_humanoid_reset_late(reset_in, progress, contact_buf, rigid_body, ball_pos, root_pos, goal_pos, max_len, enable, heights) ==
    LET terminated ==
            [i \in Envs |->
                B2I(enable /\ root_pos[i][3] < heights /\ progress[i] > 1)]
    IN  <<[i \in Envs |->
             IF progress[i] >= max_len THEN 1 ELSE terminated[i]],
          terminated>>

\* hrl_heading_easy.py compute_humanoid_reset
compute_humanoid_reset(reset_in, progress, contact_buf, rigid_body, ball_pos, root_pos, goal_pos, max_len, enable, heights) ==
    LET zeros == [i \in Envs |-> 0]
        ones == [i \in Envs |-> 1]
        fallen == has_fallen(root_pos, progress, heights)
        terminated ==
            IF enable
            THEN [i \in Envs |-> IF fallen[i] THEN ones[i] ELSE zeros[i]]
            ELSE zeros
        reset == [i \in Envs |->
                    IF progress[i] >= max_len - 1 THEN ones[i]
                    ELSE terminated[i]]
    IN  <<reset, terminated>>

\* Variant: a reset flag already raised is kept (torch.where falling back
\* on reset_buf instead of terminated).
hook_compute_humanoid_reset_carry(reset_in, progress, contact_buf, rigid_body, ball_pos, root_pos, goal_pos, max_len, enable, heights) ==
    LET terminated ==
            [i \in Envs |->
                B2I(enable /\ root_pos[i][3] < heights /\ progress[i] > 1)]
    IN  <<[i \in Envs |->
             IF progress[i] >= max_len - 1 \/ terminated[i] = 1 THEN 1
             ELSE reset_in[i]],
          terminated>>

\* hrl_hookshot.py compute_humanoid_reset
hook_compute_humanoid_reset(reset_in, progress, contact_buf, rigid_body, ball_pos, root_pos, goal_pos, max_len, enable, heights) ==
    LET zeros == [i \in Envs |-> 0]
        ones == [i \in Envs |-> 1]
        fallen == [i \in Envs |->
                     BoolMul(root_pos[i][3] < heights, progress[i] > 1)]
        terminated ==
            IF enable
            THEN [i \in Envs |-> IF fallen[i] THEN ones[i] ELSE zeros[i]]
            ELSE zeros
        reset == [i \in Envs |->
                    IF progress[i] >= max_len - 1 THEN ones[i]
                    ELSE terminated[i]]
    IN  <<reset, terminated>>

\* Variant: the reward taken from the distance of the root to the goal.
compute_heading_reward_body(root_pos, root_vel, ball_pos, goal_pos) ==
    [i \in Envs |->
        [sq |-> (root_pos[i][1] - goal_pos[i][1]) * (root_pos[i][1] - goal_pos[i][1])
                + (root_pos[i][2] - goal_pos[i][2]) * (root_pos[i][2] - goal_pos[i][2]),
         den |-> Scale]]

\* A reward exp(-sqrt(sq)/den) is kept as the pair (sq, den).
\* compute_heading_reward: exp(-norm(ball_pos - (goal, 1.0)))
compute_heading_reward(root_pos, root_vel, ball_pos, goal_pos) ==
    [i \in Envs |->
        [sq |-> NormSq3(Sub3(ball_pos[i], Goal3(goal_pos[i]))), den |-> Scale]]

\* compute_hook_reward: exp(-abs(ball_z - 2.5))
compute_hook_reward(ball_pos) ==
    [i \in Envs |->
        [sq |-> (2 * ball_pos[i][3] - HookHeightTwice * Scale)
                * (2 * ball_pos[i][3] - HookHeightTwice * Scale),
         den |-> 2 * Scale]]

\* compute_heading_observations for one environment: the target offset in
\* the heading frame, then cos and sin of the relative goal angle, each
\* kept as num/sqrt(den_sq).
compute_heading_observations(root_pos, goal_pos, root_rot) ==
    LET heading_rot == (4 - (root_rot % 4)) % 4
        local_facing_dir == RotZ(heading_rot, <<1, 0, 0>>)
        tar3d == <<goal_pos[1] - root_pos[1], goal_pos[2] - root_pos[2], 0>>
        local_tar_pos == RotZ(heading_rot, tar3d)
        n2 == local_tar_pos[1] * local_tar_pos[1]
              + local_tar_pos[2] * local_tar_pos[2]
        dot == local_tar_pos[1] * local_facing_dir[1]
               + local_tar_pos[2] * local_facing_dir[2]
        cross == local_facing_dir[1] * local_tar_pos[2]
                 - local_facing_dir[2] * local_tar_pos[1]
        cos_angle == IF n2 = 0
                     THEN [num |-> local_facing_dir[1], den_sq |-> 1]
                     ELSE [num |-> dot, den_sq |-> n2]
        sin_angle == IF n2 = 0
                     THEN [num |-> -local_facing_dir[2], den_sq |-> 1]
                     ELSE [num |-> cross, den_sq |-> n2]
    IN  <<local_tar_pos[1], local_tar_pos[2], cos_angle, sin_angle>>

\* ---------------------------------------------------------------------
\* Operations of the task classes
\* ---------------------------------------------------------------------
\* The rows env_ids of tensor t replaced by f[i].
SetRows(t, env_ids, f) == [i \in Envs |-> IF i \in env_ids THEN f[i] ELSE t[i]]

\* The assignment of get_initial_state's result into init_*[env_ids].
WriteInit(old, env_ids, motion_times) ==
    [f \in InitFields |->
        SetRows(old[f], env_ids,
                [i \in env_ids |-> get_initial_state(motion_times[i])[f]])]

\* _reset_random_ref_state_init (both classes): motion_times is what
\* sample_time returned.
reset_random_ref_state_init(old, env_ids, motion_times) ==
    WriteInit(old, env_ids, motion_times)

\* HRLHeadingEasy._reset_deterministic_ref_state_init:
\* motion_times = torch.full(motion_ids.shape, self._state_init)
reset_deterministic_ref_state_init(old, env_ids, si) ==
    WriteInit(old, env_ids, [i \in env_ids |-> si])

\* Variant: deterministic init accepted from motion time 1 on.
HeadingResetBranch_from_one(si) ==
    IF si = -1 THEN "random"
    ELSE IF si >= 1 THEN "deterministic"
    ELSE "assert"

\* Variant: Hybrid treated like Start and Random.
HookResetBranch_hybrid(si) ==
    IF si \in {"Start", "Random", "Hybrid"} THEN "random" ELSE "assert"

\* The branch _reset_actors takes: "random", "deterministic" or "assert".
HeadingResetBranch(si) ==
    IF si = -1 THEN "random"
    ELSE IF si >= 2 THEN "deterministic"
    ELSE "assert"

HookResetBranch(si) ==
    IF si = "Start" \/ si = "Random" THEN "random" ELSE "assert"

ResetBranch ==
    IF task = "HRLHeadingEasy" THEN HeadingResetBranch(state_init)
    ELSE HookResetBranch(state_init)

\* Variant: every row of the root state overwritten from init_*.
reset_humanoid_root_all(root, env_ids, ini) ==
    [i \in Envs |->
        [pos |-> ini.root_pos[i], rot |-> ini.root_rot[i],
         vel |-> ini.root_pos_vel[i], ang_vel |-> ini.root_rot_vel[i]]]

\* _reset_humanoid (both classes): the four slices of the root state and
\* the dof state of the rows env_ids are overwritten from init_*.
reset_humanoid_root(root, env_ids, ini) ==
    SetRows(root, env_ids,
            [i \in env_ids |->
                [pos |-> ini.root_pos[i], rot |-> ini.root_rot[i],
                 vel |-> ini.root_pos_vel[i],
                 ang_vel |-> ini.root_rot_vel[i]]])

reset_humanoid_dof_pos(dp, env_ids, ini) == SetRows(dp, env_ids, ini.dof_pos)

reset_humanoid_dof_vel(dv, env_ids, ini) ==
    SetRows(dv, env_ids, ini.dof_pos_vel)

\* Base class _reset_target: the ball of the rows env_ids is put back to
\* init_obj_*.
reset_target(tgt, env_ids, ini) ==
    SetRows(tgt, env_ids,
            [i \in env_ids |->
                [pos |-> ini.obj_pos[i], rot |-> ini.obj_rot[i],
                 vel |-> ini.obj_pos_vel[i],
                 ang_vel |-> ini.obj_rot_vel[i]]])

\* Base class _compute_humanoid_obs and _compute_obj_obs, one row.
compute_humanoid_obs(root) == <<root.pos[3], root.rot>>
compute_obj_obs(root, tgt) == <<tgt.pos[3] - root.pos[3]>>

\* get_task_obs_size
HeadingGoalSize == 4
HookGoalSize == 0
\* Variant: goal_size returned whether or not task observations are enabled.
get_task_obs_size_always ==
    IF task = "HRLHeadingEasy" THEN HeadingGoalSize ELSE HookGoalSize

get_task_obs_size ==
    IF enable_task_obs
    THEN (IF task = "HRLHeadingEasy" THEN HeadingGoalSize ELSE HookGoalSize)
    ELSE 0

\* _compute_task_obs, one row
compute_task_obs(root, goal) ==
    compute_heading_observations(root.pos, goal, root.rot)

\* _compute_observations, one row: torch.cat of the parts.
HeadingObsRow(root, tgt, goal) ==
    IF enable_task_obs
    THEN compute_humanoid_obs(root) \o compute_obj_obs(root, tgt)
         \o compute_task_obs(root, goal)
    ELSE compute_humanoid_obs(root) \o compute_obj_obs(root, tgt)

HookObsRow(root, tgt, goal) ==
    compute_humanoid_obs(root) \o compute_obj_obs(root, tgt)

ObsRow(root, tgt, goal) ==
    IF task = "HRLHeadingEasy" THEN HeadingObsRow(root, tgt, goal)
    ELSE HookObsRow(root, tgt, goal)

\* _compute_observations(env_ids): obs_buf[env_ids] = obs
compute_observations(obs, env_ids, root, tgt, goal) ==
    SetRows(obs, env_ids,
            [i \in env_ids |-> ObsRow(root[i], tgt[i], goal[i])])

\* torch.rand(n)*6 + 2, in length units, for the draw r/RandRes
GoalOffset(r) == GoalMin * Scale + (r * GoalSpan * Scale) \div RandRes

\* Variant: the goal placed from the root position held before the reset.
SampleGoal_stale_root(goal, env_ids, root, x, y) ==
    SetRows(goal, env_ids,
            [i \in env_ids |->
                <<humanoid_root_states[i].pos[1] + GoalOffset(x[i]),
                  humanoid_root_states[i].pos[2] + GoalOffset(y[i])>>])

\* _reset_envs / _update_proj: goal = root position + offset, per row
SampleGoal(goal, env_ids, root, x, y) ==
    SetRows(goal, env_ids,
            [i \in env_ids |->
                <<root[i].pos[1] + GoalOffset(x[i]),
                  root[i].pos[2] + GoalOffset(y[i])>>])

\* Variant: self.reached_target[:] = False
ClearReached_all(reached, env_ids) == [i \in Envs |-> FALSE]

\* self.reached_target[env_ids] = False
ClearReached(reached, env_ids) ==
    SetRows(reached, env_ids, [i \in env_ids |-> FALSE])

\* _compute_reward: at_target = distance_to_goal < 0.5
at_target(ball_pos, goal_pos) ==
    [i \in Envs |->
        NormSq3(Sub3(ball_pos[i], Goal3(goal_pos[i])))
            * TargetRadiusInv * TargetRadiusInv < Scale * Scale]

\* Variant: self.reached_target = at_target
UpdateReached_overwrite(reached, ball_pos, goal_pos) ==
    at_target(ball_pos, goal_pos)

\* self.reached_target = self.reached_target | at_target
UpdateReached(reached, ball_pos, goal_pos) ==
    [i \in Envs |-> reached[i] \/ at_target(ball_pos, goal_pos)[i]]

Pos(t) == [i \in Envs |-> t[i].pos]
Vel(t) == [i \in Envs |-> t[i].vel]

\* ---------------------------------------------------------------------
\* Initial state: the buffers as the constructors leave them
\* ---------------------------------------------------------------------
ZeroVec == <<0, 0, 0>>
ZeroBody == [pos |-> ZeroVec, rot |-> 0, vel |-> 0, ang_vel |-> 0]
ZeroInit ==
    [f \in InitFields |->
        [i \in Envs |-> IF f \in {"root_pos", "obj_pos"} THEN ZeroVec ELSE 0]]
ZeroReward == [sq |-> 0, den |-> 0]        \* stands for the reward 0.0
ObsWidth == Len(compute_humanoid_obs(ZeroBody))
            + Len(compute_obj_obs(ZeroBody, ZeroBody)) + get_task_obs_size

InitConfig ==
    /\ task \in Tasks
    /\ enable_task_obs \in BOOLEAN
    /\ cfg_state_init \in
           IF task = "HRLHeadingEasy" THEN HeadingCfgStateInits
           ELSE HookCfgStateInits
    /\ state_init =
           IF task = "HRLHeadingEasy" THEN HeadingStateInit(cfg_state_init)
           ELSE HookStateInit(cfg_state_init)
    /\ enable_early_termination \in BOOLEAN
    /\ max_episode_length \in 1 .. MaxEpisodeLength

InitBuffers ==
    /\ progress_buf = [i \in Envs |-> 0]
    /\ reset_buf = [i \in Envs |-> 1]
    /\ terminate_buf = [i \in Envs |-> 0]
    /\ rew_buf = [i \in Envs |-> ZeroReward]
    /\ obs_buf = [i \in Envs |-> [k \in 1 .. ObsWidth |-> 0]]
    /\ humanoid_root_states =
           [i \in Envs |-> [ZeroBody EXCEPT !.pos = <<0, 0, TermHeight>>]]
    /\ dof_pos = [i \in Envs |-> 0]
    /\ dof_vel = [i \in Envs |-> 0]
    /\ target_states = [i \in Envs |-> ZeroBody]
    /\ rigid_body_pos = [i \in Envs |-> <<0, 0, TermHeight>>]
    /\ contact_forces = [i \in Envs |-> 0]
    /\ init = ZeroInit
    /\ reward_weights = "unset"
    /\ hoi_data_batch = "unset"
    /\ goal_position = [i \in Envs |-> <<0, 0>>]
    /\ reached_target = [i \in Envs |-> FALSE]

Init ==
    /\ InitConfig
    /\ InitBuffers
    /\ pc = "reset"
    /\ op = [name |-> "init", env_ids |-> {}]

\* ---------------------------------------------------------------------
\* Methods that fill the buffers
\* ---------------------------------------------------------------------
\* _compute_reset: compute_humanoid_reset of the class's own file
compute_reset(reset_in, progress, contact, rigid, tgt, root, goal) ==
    IF task = "HRLHeadingEasy"
    THEN compute_humanoid_reset(reset_in, progress, contact, rigid, Pos(tgt),
                                Pos(root), goal, max_episode_length,
                                enable_early_termination, TermHeight)
    ELSE hook_compute_humanoid_reset(reset_in, progress, contact, rigid,
                                     Pos(tgt), Pos(root), goal,
                                     max_episode_length,
                                     enable_early_termination, TermHeight)

\* _compute_reward: what is stored in rew_buf
compute_reward(root, tgt, goal) ==
    IF task = "HRLHeadingEasy"
    THEN compute_heading_reward(Pos(root), Vel(root), Pos(tgt), goal)
    ELSE compute_hook_reward(Pos(tgt))

\* _compute_reward: what becomes of reached_target
compute_reward_reached(reached, tgt, goal) ==
    IF task = "HRLHeadingEasy"
    THEN UpdateReached(reached, Pos(tgt), goal)
    ELSE reached

\* ---------------------------------------------------------------------
\* Actions
\* ---------------------------------------------------------------------
\* _reset_envs(env_ids) for the environments whose reset flag is raised.
\* super()._reset_envs runs _reset_actors (the class's state init, then the
\* base class's, which calls _reset_humanoid and _reset_target), clears the
\* episode buffers of env_ids and recomputes their observations; then
\* HRLHeadingEasy samples the goals of env_ids.  Times is what sample_time
\* may return, Rands what torch.rand may return.
ResetEnvsIn(Times, Rands) ==
    /\ pc = "reset"
    /\ LET env_ids == {i \in Envs : reset_buf[i] = 1}
           branch == ResetBranch
       IN  IF env_ids # {} /\ branch = "assert"
           THEN \* assert(False) in _reset_actors: the exception leaves
                \* _reset_envs before anything is written
                /\ pc' = "failed"
                /\ op' = [name |-> "assert", env_ids |-> env_ids]
                /\ UNCHANGED <<cfgvars, bufvars, simvars, initvars, goalvars>>
           ELSE \E motion_times \in
                       IF branch = "deterministic"
                       THEN {[i \in env_ids |-> state_init]}
                       ELSE [env_ids -> Times],
                   xy \in IF task = "HRLHeadingEasy"
                          THEN [env_ids -> Rands \X Rands]
                          ELSE {[i \in env_ids |-> <<0, 0>>]} :
                LET x == [i \in env_ids |-> xy[i][1]]
                    y == [i \in env_ids |-> xy[i][2]]
                    ini == IF env_ids = {} THEN init
                           ELSE IF branch = "random"
                           THEN reset_random_ref_state_init(init, env_ids,
                                                            motion_times)
                           ELSE reset_deterministic_ref_state_init(
                                    init, env_ids, state_init)
                    root == IF env_ids = {} THEN humanoid_root_states
                            ELSE reset_humanoid_root(humanoid_root_states,
                                                     env_ids, ini)
                    tgt == reset_target(target_states, env_ids, ini)
                IN  /\ init' = ini
                    /\ IF env_ids # {} /\ task = "HRLHookshot"
                       THEN /\ reward_weights' = "default"
                            /\ hoi_data_batch' = motion_times
                       ELSE UNCHANGED <<reward_weights, hoi_data_batch>>
                    /\ humanoid_root_states' = root
                    /\ dof_pos' = reset_humanoid_dof_pos(dof_pos, env_ids, ini)
                    /\ dof_vel' = reset_humanoid_dof_vel(dof_vel, env_ids, ini)
                    /\ target_states' = tgt
                    /\ UNCHANGED <<rigid_body_pos, contact_forces>>
                    /\ progress_buf' = SetRows(progress_buf, env_ids,
                                               [i \in env_ids |-> 0])
                    /\ reset_buf' = SetRows(reset_buf, env_ids,
                                            [i \in env_ids |-> 0])
                    /\ terminate_buf' = SetRows(terminate_buf, env_ids,
                                                [i \in env_ids |-> 0])
                    /\ obs_buf' = compute_observations(obs_buf, env_ids, root,
                                                       tgt, goal_position)
                    /\ UNCHANGED rew_buf
                    /\ IF task = "HRLHeadingEasy" /\ Cardinality(env_ids) > 0
                       THEN /\ goal_position' =
                                   SampleGoal(goal_position, env_ids, root, x, y)
                            /\ reached_target' =
                                   ClearReached(reached_target, env_ids)
                       ELSE UNCHANGED goalvars
                    /\ pc' = "sim"
                    /\ op' = [name |-> "reset_envs", env_ids |-> env_ids]
                    /\ UNCHANGED cfgvars

\* HRLHeadingEasy._update_proj with projtype 'Mouse' and one viewer event:
\* a shoot event with value > 0 resamples every goal and clears every
\* reached_target flag; any other event is only printed.
UpdateProjIn(Rands) ==
    /\ pc = "sim"
    /\ task = "HRLHeadingEasy"
    /\ \E shoot \in BOOLEAN :
       \E xy \in IF shoot THEN [Envs -> Rands \X Rands]
                 ELSE {[i \in Envs |-> <<0, 0>>]} :
          LET x == [i \in Envs |-> xy[i][1]]
              y == [i \in Envs |-> xy[i][2]]
          IN  IF shoot
              THEN /\ goal_position' =
                          SampleGoal(goal_position, Envs,
                                     humanoid_root_states, x, y)
                   /\ reached_target' = ClearReached(reached_target, Envs)
                   /\ op' = [name |-> "shoot", env_ids |-> Envs]
              ELSE UNCHANGED <<goalvars, op>>
    /\ UNCHANGED <<cfgvars, pc, bufvars, simvars, initvars>>

\* A tick of the physics engine: the simulation state tensors are refreshed.
\* Outcomes is where the engine may leave an environment: pairs of a root
\* height and a place of the ball.
PhysicsIn(Outcomes) ==
    /\ pc = "sim"
    /\ \A i \in Envs : progress_buf[i] <= MaxEpisodeLength
    /\ \E outcome \in [Envs -> Outcomes] :
          LET z == [i \in Envs |-> outcome[i][1]]
              place == [i \in Envs |-> outcome[i][2]]
              root == [i \in Envs |->
                         [humanoid_root_states[i] EXCEPT
                             !.pos = <<@[1], @[2], z[i]>>,
                             !.vel = 0, !.ang_vel = 0]]
          IN  /\ humanoid_root_states' = root
              /\ dof_pos' = [i \in Envs |-> -1 - z[i]]
              /\ dof_vel' = [i \in Envs |-> 0]
              /\ target_states' =
                     [i \in Envs |->
                         [target_states[i] EXCEPT
                             !.pos = BallAt(place[i], goal_position[i]),
                             !.vel = 0, !.ang_vel = 0]]
              /\ rigid_body_pos' = Pos(root)
              /\ contact_forces' = [i \in Envs |-> B2I(z[i] < TermHeight)]
    /\ pc' = "post"
    /\ op' = [name |-> "physics", env_ids |-> Envs]
    /\ UNCHANGED <<cfgvars, bufvars, initvars, goalvars>>

\* post_physics_step: progress_buf += 1, then _compute_observations(),
\* _compute_reward() and _compute_reset() of the task class.
PostPhysicsStep ==
    /\ pc = "post"
    /\ LET progress == [i \in Envs |-> progress_buf[i] + 1]
           res == compute_reset(reset_buf, progress, contact_forces,
                                rigid_body_pos, target_states,
                                humanoid_root_states, goal_position)
       IN  /\ progress_buf' = progress
           /\ obs_buf' = compute_observations(obs_buf, Envs,
                                              humanoid_root_states,
                                              target_states, goal_position)
           /\ rew_buf' = compute_reward(humanoid_root_states, target_states,
                                        goal_position)
           /\ reached_target' =
                  compute_reward_reached(reached_target, target_states,
                                         goal_position)
           /\ reset_buf' = res[1]
           /\ terminate_buf' = res[2]
    /\ pc' = "reset"
    /\ op' = [name |-> "step", env_ids |-> Envs]
    /\ UNCHANGED <<cfgvars, simvars, initvars, goal_position>>

\* PhysicsIn followed by PostPhysicsStep, taken as one step of the loop.
\* Cap bounds the progress counters explored.
StepCapIn(Cap, Outcomes) ==
    /\ pc = "sim"
    /\ \A i \in Envs : progress_buf[i] <= Cap
    /\ \E outcome \in [Envs -> Outcomes] :
          LET z == [i \in Envs |-> outcome[i][1]]
              place == [i \in Envs |-> outcome[i][2]]
              root == [i \in Envs |->
                         [humanoid_root_states[i] EXCEPT
                             !.pos = <<@[1], @[2], z[i]>>,
                             !.vel = 0, !.ang_vel = 0]]
              tgt == [i \in Envs |->
                        [target_states[i] EXCEPT
                            !.pos = BallAt(place[i], goal_position[i]),
                            !.vel = 0, !.ang_vel = 0]]
              rigid == Pos(root)
              contact == [i \in Envs |-> B2I(z[i] < TermHeight)]
              progress == [i \in Envs |-> progress_buf[i] + 1]
              res == compute_reset(reset_buf, progress, contact, rigid, tgt,
                                   root, goal_position)
          IN  /\ humanoid_root_states' = root
              /\ dof_pos' = [i \in Envs |-> -1 - z[i]]
              /\ dof_vel' = [i \in Envs |-> 0]
              /\ target_states' = tgt
              /\ rigid_body_pos' = rigid
              /\ contact_forces' = contact
              /\ progress_buf' = progress
              /\ obs_buf' = compute_observations(obs_buf, Envs, root, tgt,
                                                 goal_position)
              /\ rew_buf' = compute_reward(root, tgt, goal_position)
              /\ reached_target' =
                     compute_reward_reached(reached_target, tgt, goal_position)
              /\ reset_buf' = res[1]
              /\ terminate_buf' = res[2]
    /\ pc' = "reset"
    /\ op' = [name |-> "step", env_ids |-> Envs]
    /\ UNCHANGED <<cfgvars, initvars, goal_position>>

StepIn(Outcomes) == StepCapIn(MaxEpisodeLength, Outcomes)

\* _compute_reset alone, on the buffers as they stand
ComputeReset ==
    /\ pc = "creset"
    /\ LET res == compute_reset(reset_buf, progress_buf, contact_forces,
                                rigid_body_pos, target_states,
                                humanoid_root_states, goal_position)
       IN  /\ reset_buf' = res[1]
           /\ terminate_buf' = res[2]
    /\ pc' = "done"
    /\ op' = [name |-> "compute_reset", env_ids |-> Envs,
              reset_in |-> reset_buf]
    /\ UNCHANGED <<cfgvars, progress_buf, rew_buf, obs_buf, simvars, initvars,
                   goalvars>>

\* ---------------------------------------------------------------------
\* Specifications
\* ---------------------------------------------------------------------
\* The reset/step loop of both classes, every configuration; the ball is
\* left on the ground and torch.rand returns 0.
Next ==
    \/ ResetEnvsIn(MotionTimes, {0})
    \/ UpdateProjIn({0})
    \/ PhysicsIn(RootHeights \X {"ground"})
    \/ PostPhysicsStep

Spec == Init /\ [][Next]_vars

\* The loop of HRLHeadingEasy with early termination and the longest
\* episode, the ball left at any place around the goal (on the ground when
\* the humanoid has fallen), every draw of torch.rand, motion time 0.
InitGoal ==
    /\ Init
    /\ task = "HRLHeadingEasy"
    /\ ~enable_task_obs
    /\ cfg_state_init = [kind |-> "str", val |-> "random"]
    /\ enable_early_termination
    /\ max_episode_length = MaxEpisodeLength

NextGoal ==
    \/ ResetEnvsIn({0}, RandVals)
    \/ UpdateProjIn(RandVals)
    \/ StepIn((RootHeights \X {"ground"})
              \cup ({TermHeight} \X {"goal", "beside"}))

SpecGoal == InitGoal /\ [][NextGoal]_vars

\* compute_humanoid_reset of either file applied once to drawn inputs: every
\* progress count, reset flag and root height, and two values of each of
\* the arguments contact_buf, rigid_body_pos, ball_pos and goal_pos.
InitReset ==
    /\ task \in Tasks
    /\ enable_task_obs = FALSE
    /\ cfg_state_init = [kind |-> "str",
                         val |-> IF task = "HRLHeadingEasy" THEN "random"
                                 ELSE "Start"]
    /\ state_init = IF task = "HRLHeadingEasy"
                    THEN HeadingStateInit(cfg_state_init)
                    ELSE HookStateInit(cfg_state_init)
    /\ enable_early_termination \in BOOLEAN
    /\ max_episode_length \in 1 .. MaxEpisodeLength
    /\ progress_buf \in [Envs -> 0 .. MaxEpisodeLength]
    /\ reset_buf \in [Envs -> {0, 1}]
    /\ terminate_buf = [i \in Envs |-> 0]
    /\ rew_buf = [i \in Envs |-> ZeroReward]
    /\ obs_buf = [i \in Envs |-> [k \in 1 .. ObsWidth |-> 0]]
    /\ \E z \in [Envs -> RootHeights] :
          humanoid_root_states =
              [i \in Envs |-> [ZeroBody EXCEPT !.pos = <<0, 0, z[i]>>]]
    /\ dof_pos = [i \in Envs |-> 0]
    /\ dof_vel = [i \in Envs |-> 0]
    /\ contact_forces \in [Envs -> {0, 1}]
    /\ target_states =
           [i \in Envs |->
               [ZeroBody EXCEPT !.pos = <<contact_forces[i], 0, 0>>]]
    /\ rigid_body_pos = [i \in Envs |-> <<contact_forces[i], 0, 0>>]
    /\ goal_position = [i \in Envs |-> <<contact_forces[i], 0>>]
    /\ init = ZeroInit
    /\ reward_weights = "unset"
    /\ hoi_data_batch = "unset"
    /\ reached_target = [i \in Envs |-> FALSE]
    /\ pc = "creset"
    /\ op = [name |-> "init", env_ids |-> {}]

NextReset == ComputeReset

SpecReset == InitReset /\ [][NextReset]_vars

\* HRLHeadingEasy._load_motion: max_episode_length is 800, or the cfg
\* episodeLength when that is positive.
load_motion(episodeLength) ==
    IF episodeLength > 0 THEN episodeLength ELSE DefaultEpisodeLength

\* cfg episodeLength: unset (0) or around the default
EpisodeLengths ==
    {0} \cup ((DefaultEpisodeLength - EpisodeLengthSlack)
                 .. (DefaultEpisodeLength + EpisodeLengthSlack))

\* torch.sum(self.reached_target) / self.num_envs, as a fraction
SuccRate(reached) ==
    [num |-> Cardinality({i \in Envs : reached[i]}), den |-> NumEnvs]

\* HRLHeadingEasy._compute_hoi_observations: what it prints, the success
\* rate when progress_buf[0] == 799 and nothing otherwise.
compute_hoi_observations(progress, reached) ==
    IF progress[0] = ReportProgress THEN <<SuccRate(reached)>> ELSE <<>>

\* The loop of HRLHeadingEasy over whole episodes of every length
\* _load_motion can set around the default: no early termination, the
\* humanoid upright, the ball on the ground or at the goal.
InitReport ==
    /\ task = "HRLHeadingEasy"
    /\ enable_task_obs = FALSE
    /\ cfg_state_init = [kind |-> "str", val |-> "random"]
    /\ state_init = HeadingStateInit(cfg_state_init)
    /\ enable_early_termination = FALSE
    /\ \E episodeLength \in EpisodeLengths :
          max_episode_length = load_motion(episodeLength)
    /\ InitBuffers
    /\ pc = "reset"
    /\ op = [name |-> "init", env_ids |-> {}]

NextReport ==
    \/ ResetEnvsIn({0}, {0})
    \/ StepCapIn(DefaultEpisodeLength + EpisodeLengthSlack,
                 {TermHeight} \X {"ground", "goal"})

SpecReport == InitReport /\ [][NextReport]_vars

\* _compute_reward alone, on the tensors as they stand
ComputeReward ==
    /\ pc = "creward"
    /\ rew_buf' = compute_reward(humanoid_root_states, target_states,
                                 goal_position)
    /\ reached_target' =
           compute_reward_reached(reached_target, target_states, goal_position)
    /\ pc' = "done"
    /\ op' = [name |-> "compute_reward", env_ids |-> Envs]
    /\ UNCHANGED <<cfgvars, progress_buf, reset_buf, terminate_buf, obs_buf,
                   simvars, initvars, goal_position>>

\* _compute_reward of either class applied once to drawn tensors: two root
\* positions and velocities, two goals and every place of the ball per
\* environment.
InitReward ==
    /\ task \in Tasks
    /\ enable_task_obs = FALSE
    /\ cfg_state_init = [kind |-> "str",
                         val |-> IF task = "HRLHeadingEasy" THEN "random"
                                 ELSE "Start"]
    /\ state_init = IF task = "HRLHeadingEasy"
                    THEN HeadingStateInit(cfg_state_init)
                    ELSE HookStateInit(cfg_state_init)
    /\ enable_early_termination = FALSE
    /\ max_episode_length = MaxEpisodeLength
    /\ progress_buf = [i \in Envs |-> 1]
    /\ reset_buf = [i \in Envs |-> 0]
    /\ terminate_buf = [i \in Envs |-> 0]
    /\ rew_buf = [i \in Envs |-> ZeroReward]
    /\ obs_buf = [i \in Envs |-> [k \in 1 .. ObsWidth |-> 0]]
    /\ \E r \in [Envs -> {0, 1}] :
          humanoid_root_states =
              [i \in Envs |->
                  [ZeroBody EXCEPT !.pos = <<r[i], 0, TermHeight>>,
                                   !.vel = r[i]]]
    /\ dof_pos = [i \in Envs |-> 0]
    /\ dof_vel = [i \in Envs |-> 0]
    /\ goal_position \in [Envs -> {<<0, 0>>, <<2, 3>>}]
    /\ \E place \in [Envs -> BallPlaces] :
          target_states =
              [i \in Envs |->
                  [ZeroBody EXCEPT
                      !.pos = BallAt(place[i], goal_position[i])]]
    /\ rigid_body_pos = [i \in Envs |-> <<0, 0, TermHeight>>]
    /\ contact_forces = [i \in Envs |-> 0]
    /\ init = ZeroInit
    /\ reward_weights = "unset"
    /\ hoi_data_batch = "unset"
    /\ reached_target = [i \in Envs |-> FALSE]
    /\ pc = "creward"
    /\ op = [name |-> "init", env_ids |-> {}]

NextReward == ComputeReward

SpecReward == InitReward /\ [][NextReward]_vars

\* =====================================================================
\* Claims
\* =====================================================================
RootZ(i) == humanoid_root_states[i].pos[3]
Fallen(i) == RootZ(i) < TermHeight
AfterComputeReset == op.name = "compute_reset"

\* C2: compute_humanoid_reset (both files) returns reset[i] = 1 exactly when
\* progress_buf[i] >= max_episode_length - 1 or terminated[i] = 1, and 0
\* otherwise, whatever reset_buf[i], contact_buf, rigid_body_pos, ball_pos
\* and goal_pos were on input.
C2_ResetIffTimeoutOrTerminated ==
    AfterComputeReset =>
        \A i \in Envs :
            reset_buf[i] =
                IF progress_buf[i] >= max_episode_length - 1
                   \/ terminate_buf[i] = 1
                THEN 1 ELSE 0

\* A flag raised on input is dropped: reset_buf[i] was 1, the result is 0.
C2_Witness ==
    /\ AfterComputeReset
    /\ \E i \in Envs : op.reset_in[i] = 1 /\ reset_buf[i] = 0
    /\ \E i \in Envs : op.reset_in[i] = 0 /\ reset_buf[i] = 1
                       /\ terminate_buf[i] = 0

RootFromInit(i) ==
    /\ humanoid_root_states[i] =
           [pos |-> init.root_pos[i], rot |-> init.root_rot[i],
            vel |-> init.root_pos_vel[i], ang_vel |-> init.root_rot_vel[i]]
    /\ dof_pos[i] = init.dof_pos[i]
    /\ dof_vel[i] = init.dof_pos_vel[i]

\* C1 as stated: no operation of the task classes writes a simulation state
\* tensor; across _reset_envs (with _reset_actors and _reset_humanoid) and
\* across _compute_observations, _compute_reward and _compute_reset the six
\* tensors are unchanged.
C1_Original ==
    [][op'.name \in {"reset_envs", "assert", "step"} => UNCHANGED simvars]_vars

\* C1 amended: _compute_observations, _compute_reward and _compute_reset
\* (the step after the physics tick) and a failed _reset_actors leave the six
\* simulation state tensors unchanged; _reset_envs(env_ids) overwrites the
\* rows env_ids of _humanoid_root_states, _dof_pos and _dof_vel with the
\* init_* values and leaves every other row of them, the rows of
\* _target_states outside env_ids, _rigid_body_pos, _contact_forces and
\* rew_buf unchanged.
C1_ResetWritesOnlyResetRows ==
    [][/\ op'.name \in {"assert", "step"} => UNCHANGED simvars
       /\ op'.name = "reset_envs" =>
            /\ \A i \in op'.env_ids : RootFromInit(i)'
            /\ \A i \in Envs \ op'.env_ids :
                  /\ humanoid_root_states'[i] = humanoid_root_states[i]
                  /\ dof_pos'[i] = dof_pos[i]
                  /\ dof_vel'[i] = dof_vel[i]
                  /\ target_states'[i] = target_states[i]
            /\ UNCHANGED <<rigid_body_pos, contact_forces, rew_buf>>]_vars

\* A reset of one environment out of two: its root row now holds the
\* reference state, the other environment's row does not.
C1_Witness ==
    /\ op.name = "reset_envs"
    /\ \E i \in op.env_ids : \E j \in Envs \ op.env_ids :
          /\ RootFromInit(i)
          /\ humanoid_root_states[i].pos # <<0, 0, TermHeight>>
          /\ ~RootFromInit(j)

\* The integers for which HRLHeadingEasy._reset_actors has no branch.
HeadingUnsupported == state_init # -1 /\ state_init < 2

\* Every init_* row of the environments ids is the reference state at
\* motion time t.
InitRowsAt(ids, t) ==
    \A i \in ids : \A f \in InitFields : init[f][i] = get_initial_state(t)[f]

\* C4: in HRLHeadingEasy the string "random" in any letter case gives
\* _state_init = -1; a reset with _state_init = -1 writes init_* from sampled
\* motion times, one with _state_init >= 2 writes every reset row from motion
\* time _state_init, and both go on to the base class reset; with any other
\* integer the reset stops at the assertion with the init_* tensors and the
\* simulation state as they were.
C4_HeadingResetPolicy ==
    [][task = "HRLHeadingEasy" =>
        /\ (cfg_state_init.kind = "str"
               /\ cfg_state_init.val \in {"random", "Random", "RANDOM"})
              => state_init = -1
        /\ (pc = "reset" /\ HeadingUnsupported
               /\ \E i \in Envs : reset_buf[i] = 1)
              => /\ pc' = "failed"
                 /\ op'.name = "assert"
                 /\ UNCHANGED <<bufvars, simvars, initvars, goalvars>>
        /\ op'.name = "assert" => HeadingUnsupported
        /\ (op'.name = "reset_envs" /\ op'.env_ids # {}) =>
              /\ ~HeadingUnsupported
              /\ state_init >= 2 =>
                    \A i \in op'.env_ids : InitRowsAt({i}, state_init)'
              /\ state_init = -1 =>
                    \A i \in op'.env_ids : \E t \in MotionTimes :
                        InitRowsAt({i}, t)'
              /\ \A i \in op'.env_ids : RootFromInit(i)']_vars

\* The assertion has stopped a reset of HRLHeadingEasy configured with
\* stateInit 0 or 1: nothing of init_* is written.
C4_Witness ==
    /\ task = "HRLHeadingEasy"
    /\ pc = "failed"
    /\ state_init \in {0, 1}
    /\ init = ZeroInit
    /\ \A i \in Envs : reset_buf[i] = 1

\* C5: HRLHookshot._reset_actors with StateInit Start or Random writes
\* init_*, reward_weights and hoi_data_batch from sampled motion times and
\* goes on to the base class reset; with Default or Hybrid the reset stops at
\* the assertion with init_*, reward_weights, hoi_data_batch and the
\* simulation state as they were.
C5_HookResetPolicy ==
    [][task = "HRLHookshot" =>
        /\ (pc = "reset" /\ state_init \in {"Default", "Hybrid"}
               /\ \E i \in Envs : reset_buf[i] = 1)
              => /\ pc' = "failed"
                 /\ op'.name = "assert"
                 /\ UNCHANGED <<bufvars, simvars, initvars, goalvars>>
        /\ op'.name = "assert" => state_init \in {"Default", "Hybrid"}
        /\ (op'.name = "reset_envs" /\ op'.env_ids # {}) =>
              /\ state_init \in {"Start", "Random"}
              /\ \A i \in op'.env_ids : \E t \in MotionTimes :
                    InitRowsAt({i}, t)'
              /\ reward_weights' = "default"
              /\ hoi_data_batch' \in [op'.env_ids -> MotionTimes]
              /\ \A i \in op'.env_ids : RootFromInit(i)']_vars

\* The assertion has stopped a reset of HRLHookshot configured with Hybrid:
\* init_*, reward_weights and hoi_data_batch are as constructed.
C5_Witness ==
    /\ task = "HRLHookshot"
    /\ pc = "failed"
    /\ state_init = "Hybrid"
    /\ init = ZeroInit
    /\ reward_weights = "unset"
    /\ hoi_data_batch = "unset"

\* C6 as stated: the progress counter of an environment never exceeds
\* max_episode_length - 1.
C6_Original ==
    \A i \in Envs : progress_buf[i] <= max_episode_length - 1

\* C6 amended: the progress counter of an environment never exceeds
\* max(1, max_episode_length - 1), and a step that leaves it at
\* max_episode_length - 1 or more raises the reset flag, so that the
\* environment is reset before its next step, whether or not early
\* termination is enabled.
C6_EpisodeEnds ==
    \A i \in Envs :
        /\ progress_buf[i] <= Max(1, max_episode_length - 1)
        /\ (pc = "reset" /\ progress_buf[i] >= max_episode_length - 1)
              => reset_buf[i] = 1
        /\ pc \in {"sim", "post"} =>
              progress_buf[i] < Max(1, max_episode_length - 1)

\* An episode of the longest length has run to its time-out without early
\* termination: the flag is raised at progress max_episode_length - 1.
C6_Witness ==
    /\ pc = "reset"
    /\ op.name = "step"
    /\ ~enable_early_termination
    /\ max_episode_length = MaxEpisodeLength
    /\ \E i \in Envs :
          /\ progress_buf[i] = max_episode_length - 1
          /\ reset_buf[i] = 1
          /\ terminate_buf[i] = 0

\* The ball of environment i is strictly closer than 0.5 to its goal lifted
\* to height 1.0 (distances in length units, compared through their squares).
BallNearGoal(i) ==
    LET dx == target_states[i].pos[1] - goal_position[i][1]
        dy == target_states[i].pos[2] - goal_position[i][2]
        dz == target_states[i].pos[3] - Scale
    IN  4 * (dx * dx + dy * dy + dz * dz) < Scale * Scale

\* C8: reached_target is false everywhere at construction; a step leaves
\* reached_target[i] = previous reached_target[i] OR (ball-to-goal distance
\* < 0.5, goal at height 1.0, strict); a flag that is true becomes false only
\* when environment i is in the env_ids of a _reset_envs call or a shoot
\* event fires in _update_proj.
C8_ReachedTargetSticky ==
    [][/\ op.name = "init" => \A i \in Envs : ~reached_target[i]
       /\ op'.name = "step" =>
             \A i \in Envs :
                 reached_target'[i] <=> (reached_target[i] \/ BallNearGoal(i)')
       /\ \A i \in Envs :
             (reached_target[i] /\ ~reached_target'[i]) =>
                 \/ op'.name = "reset_envs" /\ i \in op'.env_ids
                 \/ op'.name = "shoot"]_vars

\* After a step the flag of an environment is still true although its ball
\* is no longer within 0.5 of the goal.
C8_Witness ==
    /\ op.name = "step"
    /\ \E i \in Envs : reached_target[i] /\ ~BallNearGoal(i)

\* C9: _reset_envs(env_ids) leaves the goal position and the reached_target
\* flag of every environment outside env_ids unchanged; with env_ids empty
\* no goal position and no flag changes.
C9_ResetEnvsGoalFrame ==
    [][op'.name = "reset_envs" =>
        /\ \A i \in Envs \ op'.env_ids :
              /\ goal_position'[i] = goal_position[i]
              /\ reached_target'[i] = reached_target[i]
        /\ op'.env_ids = {} => UNCHANGED goalvars]_vars

\* One environment has been reset, its goal resampled and its flag cleared,
\* while the other keeps a raised flag.
C9_Witness ==
    /\ op.name = "reset_envs"
    /\ \E i \in op.env_ids : \E j \in Envs \ op.env_ids :
          /\ ~reached_target[i]
          /\ reached_target[j]
          /\ goal_position[i] # goal_position[j]

\* The goal of environment i lies 2 <= offset < 8 ahead of its root in x
\* and in y.
GoalInRange(i) ==
    LET ox == goal_position[i][1] - humanoid_root_states[i].pos[1]
        oy == goal_position[i][2] - humanoid_root_states[i].pos[2]
    IN  /\ 2 * Scale <= ox /\ ox < 8 * Scale
        /\ 2 * Scale <= oy /\ oy < 8 * Scale

\* C10: after _reset_envs(env_ids) every environment of env_ids has
\* 2 <= goal_x - root_x < 8 and 2 <= goal_y - root_y < 8, the root being the
\* one the base class reset has written; after a shoot event the same holds
\* for every environment.
C10_GoalOffsetRange ==
    /\ op.name = "reset_envs" => \A i \in op.env_ids : GoalInRange(i)
    /\ op.name = "shoot" => \A i \in Envs : GoalInRange(i)

\* A reset has moved the roots and drawn offsets that differ between x and
\* y in one environment and between the two environments.
C10_Witness ==
    /\ op.name = "reset_envs"
    /\ op.env_ids = Envs
    /\ \A i \in Envs : humanoid_root_states[i].pos # <<0, 0, TermHeight>>
    /\ \E i, j \in Envs :
          /\ goal_position[i][1] - humanoid_root_states[i].pos[1]
                # goal_position[i][2] - humanoid_root_states[i].pos[2]
          /\ goal_position[i] # goal_position[j]

\* What _compute_hoi_observations prints in this state.
Report == compute_hoi_observations(progress_buf, reached_target)

\* C11 as stated: for every max_episode_length that _load_motion can set,
\* the step on which the success rate is printed is the step on which
\* environment 0 times out.
C11_Original ==
    op.name = "step" =>
        (Report # <<>> <=> progress_buf[0] >= max_episode_length - 1)

\* C11, what holds: the success rate is printed exactly on the steps that
\* leave progress_buf[0] at 799; that is the time-out step of environment 0
\* only for max_episode_length = 800, it never comes for a shorter episode
\* and it is not the last step of a longer one.
C11_ReportAtStep799 ==
    op.name = "step" =>
        /\ Report # <<>> <=> progress_buf[0] = 799
        /\ Report # <<>> =>
              /\ Report[1] = SuccRate(reached_target)
              /\ max_episode_length >= 800
              /\ reset_buf[0] = 1 <=> max_episode_length = 800
        /\ max_episode_length < 800 => Report = <<>>

\* An episode one step longer than the default: the success rate is printed
\* at progress 799 although environment 0 is not reset on that step.
C11_Witness ==
    /\ op.name = "step"
    /\ Report # <<>>
    /\ Report[1].num = 1
    /\ max_episode_length = 801
    /\ reset_buf[0] = 0

\* Columns of the humanoid and object observations of a row.
BaseObsWidth ==
    Len(compute_humanoid_obs(ZeroBody)) + Len(compute_obj_obs(ZeroBody, ZeroBody))

\* The observation row of environment i was written by the last operation.
ObsRowWritten(i) ==
    \/ op.name = "step"
    \/ op.name = "reset_envs" /\ i \in op.env_ids

AfterComputeReward == op.name = "compute_reward"

\* The squared distance, in length units, from the ball of environment i to
\* its goal lifted to height 1.0.
BallGoalDistSq(i) ==
    LET dx == target_states[i].pos[1] - goal_position[i][1]
        dy == target_states[i].pos[2] - goal_position[i][2]
        dz == target_states[i].pos[3] - Scale
    IN  dx * dx + dy * dy + dz * dz

\* Rewards a = exp(-sqrt(a.sq)/a.den) and b compared: a is 1, a > b.
RewardIsOne(a) == a.sq = 0
RewardGreater(a, b) == a.sq * b.den * b.den < b.sq * a.den * a.den

\* C13: every reward is exp of a non-positive exponent, so in (0, 1].
\* compute_heading_reward is exp(-d), d the distance from the ball to
\* (goal_x, goal_y, 1.0): it is 1 exactly when the ball is at that point, it
\* is larger for the smaller d, and it is the same for the same ball and
\* goal whatever root_pos and root_vel are.  compute_hook_reward is
\* exp(-|ball_z - 2.5|): it is 1 exactly at height 2.5 and the same for the
\* same height whatever the ball's x and y are.
C13_RewardsFromBallOnly ==
    AfterComputeReward =>
        /\ \A i \in Envs : rew_buf[i].sq >= 0 /\ rew_buf[i].den > 0
        /\ task = "HRLHeadingEasy" =>
              \A i, j \in Envs :
                  /\ rew_buf[i] = [sq |-> BallGoalDistSq(i), den |-> Scale]
                  /\ RewardIsOne(rew_buf[i]) <=>
                        target_states[i].pos
                            = <<goal_position[i][1], goal_position[i][2], Scale>>
                  /\ BallGoalDistSq(i) < BallGoalDistSq(j) =>
                        RewardGreater(rew_buf[i], rew_buf[j])
                  /\ BallGoalDistSq(i) = BallGoalDistSq(j) =>
                        rew_buf[i] = rew_buf[j]
        /\ task = "HRLHookshot" =>
              \A i, j \in Envs :
                  /\ rew_buf[i].den = 2 * Scale
                  /\ rew_buf[i].sq
                        = (2 * target_states[i].pos[3] - 5 * Scale)
                          * (2 * target_states[i].pos[3] - 5 * Scale)
                  /\ RewardIsOne(rew_buf[i]) <=>
                        2 * target_states[i].pos[3] = 5 * Scale
                  /\ target_states[i].pos[3] = target_states[j].pos[3] =>
                        rew_buf[i] = rew_buf[j]

\* HRLHeadingEasy: one ball at its goal with reward 1, the other ball beside
\* its goal with a smaller reward, the two roots at different places.
C13_Witness ==
    /\ AfterComputeReward
    /\ task = "HRLHeadingEasy"
    /\ \E i, j \in Envs :
          /\ RewardIsOne(rew_buf[i])
          /\ BallGoalDistSq(j) = 1
          /\ RewardGreater(rew_buf[i], rew_buf[j])
          /\ humanoid_root_states[i].pos # humanoid_root_states[j].pos
          /\ humanoid_root_states[j].pos[1] # goal_position[j][1]

====
